---- MODULE Spec2Model ----
(***************************************************************************)
(* Glucose Buddy back ends: the extraction / validation / confirmation     *)
(* pipeline of the three stateful service variants.                        *)
(*                                                                         *)
(*   cx_*  backend/main_complex.py         HTTP, in-memory Database        *)
(*   ws_*  backend/main.py                 WebSocket, ConnectionManager    *)
(*   sv_*  backend/main_working_saving.py  HTTP, sqlite table "readings"   *)
(*                                                                         *)
(* Each variant is a program of its own, so each has its own              *)
(* specification (SpecComplex, SpecWS, SpecSaving) over its own variables; *)
(* the wall clock `today` is shared.  Handlers are coroutines: a step of   *)
(* the model is the code between two suspension points (await of a        *)
(* collaborator call, or of the next inbound frame).                       *)
(*                                                                         *)
(* Data abstraction: glucose levels are integers drawn from a small set   *)
(* that straddles the [30, 600] bound, dates are day numbers, uuid4() is a *)
(* fresh counter value, free-text notes (never read by any handler) are    *)
(* left out, a transcript is the sequence of user messages of its turns.   *)
(***************************************************************************)
EXTENDS Integers, Sequences, FiniteSets, TLC

\* ------------------------------------------------------------------ bounds
\* Last day the wall clock reaches (days are 0..MaxDay).
MaxDay == 1
\* Number of chat turns (other than exit commands) the clients begin; each
\* turn draws at most one uuid4() value.
MaxChats == 2
\* Number of chat turns the clients of main_working_saving.py begin; each
\* turn draws at most one uuid4() value.
MaxSvChats == 2
\* Number of chat messages the connections of main.py receive.
MaxWsChats == 1
\* Largest size of the shared store of main.py.
MaxStore == 2
\* Longest list of readings handed to a pure function called directly.
MaxHistory == 3

\* ------------------------------------------------------- program constants
\* Field(ge=30, ...) and the validators' lower bound.
MinGlucose == 30
\* Field(..., le=600) and the validators' upper bound.
MaxGlucose == 600
\* abs(new - avg) < 10: the dead zone of analyze_trend.
DeadZone == 10
\* (today - reading_date).days > 90 in main_working_saving.py.
MaxAgeDays == 90

\* ------------------------------------------------------------- input sets
Sessions == {"s1", "s2"}
FASTING == "fasting"
PRANDIAL == "prandial"
MealStatus == {FASTING, PRANDIAL}
\* Levels the language model or a client may produce: below, inside, above.
RawLevels == {20, 100, 700}
\* Dates the language model or a client may produce: the first day and the
\* day after the last day of the clock (a date that is always in the future).
RawDates == {0, MaxDay + 1}
\* What the language model may produce in main_working_saving.py, whose
\* handlers store glucose_level and meal_status and never branch on them: a
\* level inside [30, 600] and one outside (its BloodSugarReading has no
\* bound), and one meal status.
SvLevels == {100, 700}
SvMealStatus == {FASTING}
\* "bye" is one of the exit commands of main_complex.chat.
Messages == {"bye", "hello"}
ExitCommands == {"exit", "quit", "bye"}
None == [none |-> TRUE]
\* In-flight HTTP requests of main_complex.py / main_working_saving.py.
Reqs == {"r1", "r2"}
\* WebSocket connections of main.py.
Conns == {"c1", "c2"}

VARIABLES
    today,                \* datetime.date.today()
    cx_readings,          \* main_complex db.readings: session -> list
    cx_message_history,   \* main_complex db.message_history: session -> list
    cx_pending_readings,  \* main_complex db.pending_readings: session -> reading | None
    cx_uuid,              \* number of uuid4() values drawn so far
    cx_chats,             \* number of chat turns begun so far
    cx_req,               \* main_complex: the chat coroutines in flight
    cx_resp,              \* main_complex: the last HTTP response sent
    ws_readings,          \* main.py manager.db.readings: one list for all connections
    ws_active_connections,\* main.py manager.active_connections
    ws_message_histories, \* main.py manager.message_histories: connection ->
                          \* [messages |-> list], or None for a key not in the dict
    ws_handler,           \* main.py: the websocket_endpoint coroutine of each connection
    ws_chats,             \* main.py: number of chat messages received so far
    ws_sent,              \* main.py: the last frame sent, and the connection it went to
    ws_awaiting,          \* main.py: per connection, the candidate last sent as
                          \* reading_extracted and not yet answered by confirm_reading
                          \* (the client's side of the exchange; the server keeps no copy)
    sv_readings,          \* main_working_saving: the rows of table "readings"
    sv_users,             \* main_working_saving: the keys of table "users"
    sv_uuid,              \* main_working_saving: number of uuid4() values drawn so far
    sv_chats,             \* main_working_saving: number of chat turns begun so far
    sv_req,               \* main_working_saving: the chat coroutines in flight
    sv_resp,              \* main_working_saving: the last HTTP response sent
    fn_call,              \* a direct call of one of the pure functions: its arguments
    fn_result             \* what that call returned, None before it returns

cx_vars == <<cx_readings, cx_message_history, cx_pending_readings, cx_uuid, cx_chats,
             cx_req, cx_resp>>
ws_vars == <<ws_readings, ws_active_connections, ws_message_histories, ws_handler,
             ws_chats, ws_sent, ws_awaiting>>
sv_vars == <<sv_readings, sv_users, sv_uuid, sv_chats, sv_req, sv_resp>>
fn_vars == <<fn_call, fn_result>>
vars == <<today, cx_vars, ws_vars, sv_vars, fn_vars>>

\* ---------------------------------------------------------------- helpers
Abs(x) == IF x < 0 THEN -x ELSE x

RECURSIVE SumLevels(_)
SumLevels(rs) ==
    IF rs = <<>> THEN 0 ELSE Head(rs).glucose_level + SumLevels(Tail(rs))

\* f"{num/den:.1f}" in tenths: the nearest tenth, an exact tie going to the
\* even digit (a tie is a multiple of 1/4 here, exact in binary floating
\* point, so the decimal conversion rounds it half-even).
Round10(num, den) ==
    LET n == Abs(10 * num)
        q == n \div den
        r == n % den
        m == IF 2 * r < den THEN q
             ELSE IF 2 * r > den THEN q + 1
             ELSE IF q % 2 = 0 THEN q ELSE q + 1
    IN  IF num < 0 THEN -m ELSE m

\* pydantic's check of glucose_level: Field(ge=30, le=600).
GlucoseFieldOK(level) == level >= MinGlucose /\ level <= MaxGlucose

\* ------------------------------------------------ main_complex.py: Database
get_readings(readings, user_id) == readings[user_id]

\* add_reading with one list for all users, as in main.py's store.
add_reading_shared(readings, user_id, reading) ==
    [u \in DOMAIN readings |-> Append(readings[u], reading)]

add_reading(readings, user_id, reading) ==
    [readings EXCEPT ![user_id] = Append(@, reading)]

get_message_history(message_history, session_id) == message_history[session_id]

set_message_history(message_history, session_id, history) ==
    [message_history EXCEPT ![session_id] = history]

set_pending_reading(pending_readings, session_id, reading) ==
    [pending_readings EXCEPT ![session_id] = reading]

\* get_pending_reading with one pending slot for all sessions: a session
\* without a pending reading of its own is handed another session's.
get_pending_reading_any(pending_readings, session_id) ==
    IF pending_readings[session_id] # None
    THEN pending_readings[session_id]
    ELSE IF \E o \in DOMAIN pending_readings : pending_readings[o] # None
    THEN pending_readings[CHOOSE o \in DOMAIN pending_readings : pending_readings[o] # None]
    ELSE None

get_pending_reading(pending_readings, session_id) == pending_readings[session_id]

\* clear_pending_reading that deletes nothing.
clear_pending_reading_kept(pending_readings, session_id) == pending_readings

clear_pending_reading(pending_readings, session_id) ==
    [pending_readings EXCEPT ![session_id] = None]

\* ------------------------------------------- main_complex.py: analyze_trend
\* analyze_trend without the meal_status filter: the average of all previous
\* readings.
analyze_trend_all(previous_readings, new_reading) ==
    IF previous_readings = <<>>
    THEN [kind |-> "first_recorded"]
    ELSE
      LET n == Len(previous_readings)
          s == SumLevels(previous_readings)
          d == new_reading.glucose_level * n - s
      IN  IF Abs(d) < DeadZone * n
          THEN [kind |-> "consistent", meal_status |-> new_reading.meal_status,
                avg |-> Round10(s, n)]
          ELSE IF d > 0
          THEN [kind |-> "higher", meal_status |-> new_reading.meal_status,
                by |-> Round10(d, n), avg |-> Round10(s, n)]
          ELSE [kind |-> "lower", meal_status |-> new_reading.meal_status,
                by |-> Round10(-d, n), avg |-> Round10(s, n)]

\* The returned text, as its kind and the numbers printed in it (in tenths).
analyze_trend(previous_readings, new_reading) ==
    IF previous_readings = <<>>
    THEN [kind |-> "first_recorded"]
    ELSE
      LET similar_readings ==
              SelectSeq(previous_readings,
                        LAMBDA r : r.meal_status = new_reading.meal_status)
          n == Len(similar_readings)
          s == SumLevels(similar_readings)
          \* new_reading.glucose_level - avg, times n
          d == new_reading.glucose_level * n - s
      IN  IF similar_readings = <<>>
          THEN [kind |-> "first_of_status", meal_status |-> new_reading.meal_status]
          ELSE IF Abs(d) < DeadZone * n
          THEN [kind |-> "consistent", meal_status |-> new_reading.meal_status,
                avg |-> Round10(s, n)]
          ELSE IF d > 0
          THEN [kind |-> "higher", meal_status |-> new_reading.meal_status,
                by |-> Round10(d, n), avg |-> Round10(s, n)]
          ELSE [kind |-> "lower", meal_status |-> new_reading.meal_status,
                by |-> Round10(-d, n), avg |-> Round10(s, n)]

\* ------------------------------------------------------ main_complex.py: chat
IdleReq == [pc |-> "idle"]

\* chat up to the await of conversation_agent.run: the exit command returns
\* at once; otherwise the transcript is read and the coroutine suspends.
cx_ChatBegin(r, session_id, message) ==
    /\ cx_req[r].pc = "idle"
    /\ IF message \in ExitCommands
       THEN /\ cx_resp' = [op |-> "chat", session_id |-> session_id, status |-> 200,
                           response |-> "take_care", needs_confirmation |-> FALSE,
                           extracted_reading |-> None]
            /\ UNCHANGED <<cx_req, cx_chats>>
       ELSE /\ cx_chats < MaxChats
            /\ cx_chats' = cx_chats + 1
            /\ cx_req' = [cx_req EXCEPT ![r] =
                   [pc |-> "conversation", session_id |-> session_id,
                    message |-> message,
                    message_history |-> get_message_history(cx_message_history, session_id)]]
            /\ UNCHANGED cx_resp
    /\ UNCHANGED <<today, fn_vars, ws_vars, sv_vars, cx_readings, cx_message_history, cx_pending_readings, cx_uuid>>

\* conversation_agent.run returned: the transcript is saved, the pending slot
\* is read, and either the reply is returned or extraction_agent.run awaited.
cx_ChatConversationDone(r) ==
    /\ cx_req[r].pc = "conversation"
    /\ LET session_id == cx_req[r].session_id
           all_messages == Append(cx_req[r].message_history, cx_req[r].message)
           pending_reading == get_pending_reading(cx_pending_readings, session_id)
       IN  /\ cx_message_history' =
                  set_message_history(cx_message_history, session_id, all_messages)
           /\ IF pending_reading # None
              THEN /\ cx_resp' = [op |-> "chat", session_id |-> session_id, status |-> 200,
                                  response |-> "reply", needs_confirmation |-> FALSE,
                                  extracted_reading |-> None]
                   /\ cx_req' = [cx_req EXCEPT ![r] = IdleReq]
              ELSE /\ cx_req' = [cx_req EXCEPT ![r] =
                          [pc |-> "extraction", session_id |-> session_id]]
                   /\ UNCHANGED cx_resp
    /\ UNCHANGED <<today, fn_vars, ws_vars, sv_vars, cx_readings, cx_pending_readings, cx_uuid, cx_chats>>

\* A collaborator call raised (model error, usage limit, output that fails
\* the result type after the retries): FastAPI answers 500.
cx_ChatCollaboratorFails(r) ==
    /\ cx_req[r].pc \in {"conversation", "extraction"}
    /\ cx_resp' = [op |-> "chat", session_id |-> cx_req[r].session_id, status |-> 500,
                   response |-> "error", needs_confirmation |-> FALSE,
                   extracted_reading |-> None]
    /\ cx_req' = [cx_req EXCEPT ![r] = IdleReq]
    /\ UNCHANGED <<today, fn_vars, ws_vars, sv_vars, cx_readings, cx_message_history, cx_pending_readings, cx_uuid, cx_chats>>

\* extraction_agent.run returned InvalidReading: the reply is returned.
cx_ChatExtractionInvalid(r) ==
    /\ cx_req[r].pc = "extraction"
    /\ cx_resp' = [op |-> "chat", session_id |-> cx_req[r].session_id, status |-> 200,
                   response |-> "reply", needs_confirmation |-> FALSE,
                   extracted_reading |-> None]
    /\ cx_req' = [cx_req EXCEPT ![r] = IdleReq]
    /\ UNCHANGED <<today, fn_vars, ws_vars, sv_vars, cx_readings, cx_message_history, cx_pending_readings, cx_uuid, cx_chats>>

\* The extraction with a BloodSugarReading that has no id field: the
\* candidate is stored and returned without one, and uuid4() is not called.
cx_ChatExtractionReading_anonymous(r, level, date, meal_status) ==
    /\ cx_req[r].pc = "extraction"
    /\ GlucoseFieldOK(level)
    /\ LET session_id == cx_req[r].session_id
           data == [glucose_level |-> level, date |-> date,
                    meal_status |-> meal_status]
       IN  /\ cx_pending_readings' =
                  set_pending_reading(cx_pending_readings, session_id, data)
           /\ cx_resp' = [op |-> "chat", session_id |-> session_id, status |-> 200,
                          response |-> "is_this_correct", needs_confirmation |-> TRUE,
                          extracted_reading |-> data]
    /\ cx_req' = [cx_req EXCEPT ![r] = IdleReq]
    /\ UNCHANGED <<today, fn_vars, ws_vars, sv_vars, cx_readings, cx_message_history, cx_chats, cx_uuid>>

\* extraction_agent.run returned a BloodSugarReading: the result type admits
\* only levels that pass Field(ge=30, le=600), any date, and draws the id
\* from uuid4(); the reading is stored as pending as it came.
cx_ChatExtractionReading(r, level, date, meal_status) ==
    /\ cx_req[r].pc = "extraction"
    /\ GlucoseFieldOK(level)
    /\ LET session_id == cx_req[r].session_id
           data == [id |-> cx_uuid + 1, glucose_level |-> level, date |-> date,
                    meal_status |-> meal_status]
       IN  /\ cx_uuid' = cx_uuid + 1
           /\ cx_pending_readings' =
                  set_pending_reading(cx_pending_readings, session_id, data)
           /\ cx_resp' = [op |-> "chat", session_id |-> session_id, status |-> 200,
                          response |-> "is_this_correct", needs_confirmation |-> TRUE,
                          extracted_reading |-> data]
    /\ cx_req' = [cx_req EXCEPT ![r] = IdleReq]
    /\ UNCHANGED <<today, fn_vars, ws_vars, sv_vars, cx_readings, cx_message_history, cx_chats>>

\* --------------------------------------------- main_complex.py: confirm_reading
\* confirm_reading that commits the pending reading and leaves it pending.
cx_ConfirmReading_keeping(session_id, reading_id, confirm) ==
    LET user_id == session_id
        reading == get_pending_reading(cx_pending_readings, session_id)
    IN  /\ IF reading = None
           THEN /\ cx_resp' = [op |-> "confirm_reading", session_id |-> session_id,
                               status |-> 404, message |-> "no_pending_reading"]
                /\ UNCHANGED <<cx_readings, cx_pending_readings>>
           ELSE IF confirm
           THEN LET readings1 == add_reading(cx_readings, user_id, reading)
                    previous_readings == get_readings(readings1, user_id)
                    trend == analyze_trend(previous_readings, reading)
                IN  /\ cx_readings' = readings1
                    /\ UNCHANGED cx_pending_readings
                    /\ cx_resp' = [op |-> "confirm_reading", session_id |-> session_id,
                                   status |-> 200, message |-> "saved",
                                   trend |-> trend]
           ELSE /\ cx_pending_readings' =
                       clear_pending_reading(cx_pending_readings, session_id)
                /\ cx_resp' = [op |-> "confirm_reading", session_id |-> session_id,
                               status |-> 200, message |-> "try_again"]
                /\ UNCHANGED cx_readings
        /\ UNCHANGED <<today, fn_vars, ws_vars, sv_vars, cx_message_history, cx_uuid, cx_chats, cx_req>>

\* No suspension point inside: analyze_trend is awaited but never suspends.
cx_ConfirmReading(session_id, reading_id, confirm) ==
    LET user_id == session_id
        reading == get_pending_reading(cx_pending_readings, session_id)
    IN  /\ IF reading = None
           THEN /\ cx_resp' = [op |-> "confirm_reading", session_id |-> session_id,
                               status |-> 404, message |-> "no_pending_reading"]
                /\ UNCHANGED <<cx_readings, cx_pending_readings>>
           ELSE IF confirm
           THEN LET readings1 == add_reading(cx_readings, user_id, reading)
                    previous_readings == get_readings(readings1, user_id)
                    trend == analyze_trend(previous_readings, reading)
                IN  /\ cx_readings' = readings1
                    /\ cx_pending_readings' =
                           clear_pending_reading(cx_pending_readings, session_id)
                    /\ cx_resp' = [op |-> "confirm_reading", session_id |-> session_id,
                                   status |-> 200, message |-> "saved",
                                   trend |-> trend]
           ELSE /\ cx_pending_readings' =
                       clear_pending_reading(cx_pending_readings, session_id)
                /\ cx_resp' = [op |-> "confirm_reading", session_id |-> session_id,
                               status |-> 200, message |-> "try_again"]
                /\ UNCHANGED cx_readings
        /\ UNCHANGED <<today, fn_vars, ws_vars, sv_vars, cx_message_history, cx_uuid, cx_chats, cx_req>>

\* ------------------------------- main_complex.py: get_readings, get_stats
\* sum / len as the fraction in lowest terms (two fractions are the same
\* float exactly when they are the same number, for sums this small).
RECURSIVE GCD(_, _)
GCD(a, b) == IF b = 0 THEN a ELSE GCD(b, a % b)

Mean(num, den) == [num |-> num \div GCD(num, den), den |-> den \div GCD(num, den)]

\* The ReadingStats that get_stats builds from db.get_readings(user_id).
get_stats(readings) ==
    IF readings = <<>>
    THEN [average_fasting |-> None, average_prandial |-> None, total_readings |-> 0]
    ELSE
      LET fasting_readings == SelectSeq(readings, LAMBDA r : r.meal_status = FASTING)
          prandial_readings == SelectSeq(readings, LAMBDA r : r.meal_status = PRANDIAL)
          avg_fasting ==
              IF fasting_readings # <<>>
              THEN Mean(SumLevels(fasting_readings), Len(fasting_readings))
              ELSE None
          avg_prandial ==
              IF prandial_readings # <<>>
              THEN Mean(SumLevels(prandial_readings), Len(prandial_readings))
              ELSE None
      IN  [average_fasting |-> avg_fasting, average_prandial |-> avg_prandial,
           total_readings |-> Len(readings)]

\* GET /readings/{user_id} that also drops the user's pending reading.
cx_GetReadings_clearing(user_id) ==
    /\ cx_resp' = [op |-> "get_readings", user_id |-> user_id, status |-> 200,
                   readings |-> get_readings(cx_readings, user_id)]
    /\ cx_pending_readings' = clear_pending_reading(cx_pending_readings, user_id)
    /\ UNCHANGED <<today, fn_vars, ws_vars, sv_vars, cx_readings, cx_message_history, cx_uuid, cx_chats, cx_req>>

\* GET /readings/{user_id}.
cx_GetReadings(user_id) ==
    /\ cx_resp' = [op |-> "get_readings", user_id |-> user_id, status |-> 200,
                   readings |-> get_readings(cx_readings, user_id)]
    /\ UNCHANGED <<today, fn_vars, ws_vars, sv_vars, cx_readings, cx_message_history, cx_pending_readings, cx_uuid, cx_chats, cx_req>>

\* GET /stats/{user_id}.
cx_GetStats(user_id) ==
    /\ cx_resp' = [op |-> "get_stats", user_id |-> user_id, status |-> 200,
                   stats |-> get_stats(get_readings(cx_readings, user_id))]
    /\ UNCHANGED <<today, fn_vars, ws_vars, sv_vars, cx_readings, cx_message_history, cx_pending_readings, cx_uuid, cx_chats, cx_req>>

\* --------------------------------------------- main.py: BloodSugarDatabase
\* add_reading that puts the new reading in front (insert(0, reading)).
ws_add_reading_front(readings, reading) == <<reading>> \o readings

ws_add_reading(readings, reading) == Append(readings, reading)

ws_get_readings(readings) == readings

\* get_statistics that averages all readings in both categories.
ws_get_statistics_all(readings) ==
    IF readings = <<>>
    THEN [total_readings |-> 0, has_fasting |-> FALSE, has_prandial |-> FALSE]
    ELSE
      LET fasting_readings == SelectSeq(readings, LAMBDA r : r.meal_status = FASTING)
          prandial_readings == SelectSeq(readings, LAMBDA r : r.meal_status = PRANDIAL)
          stats == [total_readings |-> Len(readings),
                    has_fasting |-> Len(fasting_readings) > 0,
                    has_prandial |-> Len(prandial_readings) > 0]
      IN  stats
          @@ (IF fasting_readings # <<>>
              THEN [avg_fasting |-> Round10(SumLevels(readings), Len(readings))]
              ELSE <<>>)
          @@ (IF prandial_readings # <<>>
              THEN [avg_prandial |-> Round10(SumLevels(readings), Len(readings))]
              ELSE <<>>)

\* The dict get_statistics returns: keys avg_fasting and avg_prandial exist
\* only for a category that has readings; round(num / den, 1) is in tenths.
ws_get_statistics(readings) ==
    IF readings = <<>>
    THEN [total_readings |-> 0, has_fasting |-> FALSE, has_prandial |-> FALSE]
    ELSE
      LET fasting_readings == SelectSeq(readings, LAMBDA r : r.meal_status = FASTING)
          prandial_readings == SelectSeq(readings, LAMBDA r : r.meal_status = PRANDIAL)
          stats == [total_readings |-> Len(readings),
                    has_fasting |-> Len(fasting_readings) > 0,
                    has_prandial |-> Len(prandial_readings) > 0]
      IN  stats
          @@ (IF fasting_readings # <<>>
              THEN [avg_fasting |->
                        Round10(SumLevels(fasting_readings), Len(fasting_readings))]
              ELSE <<>>)
          @@ (IF prandial_readings # <<>>
              THEN [avg_prandial |->
                        Round10(SumLevels(prandial_readings), Len(prandial_readings))]
              ELSE <<>>)

\* ------------------------------------------------------ main.py: validators
\* sep.join(parts): with fewer than two parts the separator does not appear.
Join(sep, parts) ==
    IF Len(parts) <= 1 THEN [sep |-> "", parts |-> parts]
    ELSE [sep |-> sep, parts |-> parts]

\* The validate_blood_sugar tool: the reading, or InvalidReading(reason).
validate_blood_sugar(reading, deps_today) ==
    LET errors ==
            (IF reading.glucose_level < MinGlucose \/ reading.glucose_level > MaxGlucose
             THEN <<"level_outside_range">> ELSE <<>>)
            \o (IF reading.date > deps_today THEN <<"date_in_future">> ELSE <<>>)
    IN  IF errors # <<>>
        THEN [type |-> "InvalidReading", reason |-> Join("\n", errors)]
        ELSE reading

\* validate_reading: the pair (is_valid, error_message).
validate_reading(reading, today_) ==
    LET errors ==
            (IF reading.glucose_level < MinGlucose \/ reading.glucose_level > MaxGlucose
             THEN <<"level_outside_range">> ELSE <<>>)
            \o (IF reading.date > today_ THEN <<"date_in_future">> ELSE <<>>)
    IN  IF errors # <<>>
        THEN [is_valid |-> FALSE, error_message |-> Join("\n", errors)]
        ELSE [is_valid |-> TRUE, error_message |-> Join("\n", <<>>)]

\* ----------------------------------------------- main.py: analyze_trend
\* The analyze_trend tool of main.py.
ws_analyze_trend(previous_readings, new_reading) ==
    IF previous_readings = <<>>
    THEN [kind |-> "first_recorded"]
    ELSE
      LET readings == previous_readings
          similar_readings ==
              SelectSeq(readings, LAMBDA r : r.meal_status = new_reading.meal_status)
          n == Len(similar_readings)
          s == SumLevels(similar_readings)
          d == new_reading.glucose_level * n - s
      IN  IF similar_readings = <<>>
          THEN [kind |-> "first_of_status", meal_status |-> new_reading.meal_status]
          ELSE IF Abs(d) < DeadZone * n
          THEN [kind |-> "consistent", meal_status |-> new_reading.meal_status,
                avg |-> Round10(s, n)]
          ELSE IF d > 0
          THEN [kind |-> "higher", meal_status |-> new_reading.meal_status,
                by |-> Round10(d, n), avg |-> Round10(s, n)]
          ELSE [kind |-> "lower", meal_status |-> new_reading.meal_status,
                by |-> Round10(-d, n), avg |-> Round10(s, n)]

\* ---------------------------------------------- main.py: ConnectionManager
ws_connect(active_connections, websocket) == active_connections \cup {websocket}

ws_disconnect(active_connections, websocket) == active_connections \ {websocket}

\* The frames of send_message, send_reading_extracted, send_history_update
\* and send_stats_update.
ws_send_message(websocket, message) ==
    [to |-> websocket, type |-> "message", message |-> message]

ws_send_reading_extracted(websocket, reading) ==
    [to |-> websocket, type |-> "reading_extracted", reading |-> reading]

ws_send_history_update(websocket, readings) ==
    [to |-> websocket, type |-> "history_update", readings |-> ws_get_readings(readings)]

ws_send_stats_update(websocket, readings) ==
    [to |-> websocket, type |-> "stats_update", stats |-> ws_get_statistics(readings)]

\* --------------------------------------------- main.py: websocket_endpoint
\* The inline validation with the date tested only when the level passed
\* (`elif` for the second `if`).
ws_inline_errors_elif(reading, deps_today) ==
    IF reading.glucose_level < MinGlucose \/ reading.glucose_level > MaxGlucose
    THEN <<"level_outside_range">>
    ELSE IF reading.date > deps_today THEN <<"date_in_future">> ELSE <<>>

\* The inline validation of the chat branch: the list of errors.
ws_inline_errors(reading, deps_today) ==
    (IF reading.glucose_level < MinGlucose \/ reading.glucose_level > MaxGlucose
     THEN <<"level_outside_range">> ELSE <<>>)
    \o (IF reading.date > deps_today THEN <<"date_in_future">> ELSE <<>>)

\* The inline trend analysis with `<= 10` for `< 10`.
ws_trend_analysis_inclusive(readings, reading) ==
    IF Len(readings) <= 1
    THEN [kind |-> "first_recorded"]
    ELSE
      LET previous_readings == SubSeq(readings, 1, Len(readings) - 1)
          similar_readings ==
              SelectSeq(previous_readings,
                        LAMBDA r : r.meal_status = reading.meal_status)
          n == Len(similar_readings)
          s == SumLevels(similar_readings)
          d == reading.glucose_level * n - s
      IN  IF similar_readings = <<>>
          THEN [kind |-> "first_of_status", meal_status |-> reading.meal_status]
          ELSE IF Abs(d) <= DeadZone * n
          THEN [kind |-> "consistent", meal_status |-> reading.meal_status,
                avg |-> Round10(s, n)]
          ELSE IF d > 0
          THEN [kind |-> "higher", meal_status |-> reading.meal_status,
                by |-> Round10(d, n), avg |-> Round10(s, n)]
          ELSE [kind |-> "lower", meal_status |-> reading.meal_status,
                by |-> Round10(-d, n), avg |-> Round10(s, n)]

\* The inline trend analysis that compares with the whole store, the
\* just-added reading included (`readings` for `readings[:-1]`).
ws_trend_analysis_whole(readings, reading) ==
    IF Len(readings) <= 1
    THEN [kind |-> "first_recorded"]
    ELSE
      LET previous_readings == readings
          similar_readings ==
              SelectSeq(previous_readings,
                        LAMBDA r : r.meal_status = reading.meal_status)
          n == Len(similar_readings)
          s == SumLevels(similar_readings)
          d == reading.glucose_level * n - s
      IN  IF similar_readings = <<>>
          THEN [kind |-> "first_of_status", meal_status |-> reading.meal_status]
          ELSE IF Abs(d) < DeadZone * n
          THEN [kind |-> "consistent", meal_status |-> reading.meal_status,
                avg |-> Round10(s, n)]
          ELSE IF d > 0
          THEN [kind |-> "higher", meal_status |-> reading.meal_status,
                by |-> Round10(d, n), avg |-> Round10(s, n)]
          ELSE [kind |-> "lower", meal_status |-> reading.meal_status,
                by |-> Round10(-d, n), avg |-> Round10(s, n)]

\* The inline trend analysis of the confirm_reading branch; `readings` is the
\* store after the append.
ws_trend_analysis(readings, reading) ==
    IF Len(readings) <= 1
    THEN [kind |-> "first_recorded"]
    ELSE
      LET previous_readings == SubSeq(readings, 1, Len(readings) - 1)
          similar_readings ==
              SelectSeq(previous_readings,
                        LAMBDA r : r.meal_status = reading.meal_status)
          n == Len(similar_readings)
          s == SumLevels(similar_readings)
          d == reading.glucose_level * n - s
      IN  IF similar_readings = <<>>
          THEN [kind |-> "first_of_status", meal_status |-> reading.meal_status]
          ELSE IF Abs(d) < DeadZone * n
          THEN [kind |-> "consistent", meal_status |-> reading.meal_status,
                avg |-> Round10(s, n)]
          ELSE IF d > 0
          THEN [kind |-> "higher", meal_status |-> reading.meal_status,
                by |-> Round10(d, n), avg |-> Round10(s, n)]
          ELSE [kind |-> "lower", meal_status |-> reading.meal_status,
                by |-> Round10(-d, n), avg |-> Round10(s, n)]

ws_Receiving == [pc |-> "receive"]

\* manager.connect and the welcome message.
ws_Connect(c) ==
    /\ ws_handler[c].pc = "new"
    /\ ws_active_connections' = ws_connect(ws_active_connections, c)
    /\ ws_message_histories' = [ws_message_histories EXCEPT ![c] = [messages |-> <<>>]]
    /\ ws_sent' = ws_send_message(c, [text |-> "welcome"])
    /\ ws_handler' = [ws_handler EXCEPT ![c] = ws_Receiving]
    /\ UNCHANGED <<today, fn_vars, cx_vars, sv_vars, ws_readings, ws_chats, ws_awaiting>>

\* action == "message": Deps is built and extraction_agent.run awaited.
ws_ReceiveMessage(c) ==
    /\ ws_handler[c].pc = "receive"
    /\ ws_chats < MaxWsChats
    /\ ws_chats' = ws_chats + 1
    /\ ws_handler' = [ws_handler EXCEPT ![c] = [pc |-> "extraction", deps_today |-> today]]
    /\ UNCHANGED <<today, fn_vars, cx_vars, sv_vars, ws_readings, ws_active_connections,
                   ws_message_histories, ws_sent, ws_awaiting>>

\* extraction_agent.run returned a BloodSugarReading (the result type admits
\* only levels within Field(ge=30, le=600)): it is validated inline and
\* either refused in a message or sent for confirmation.
ws_ExtractionReading(c, level, date, meal_status) ==
    /\ ws_handler[c].pc = "extraction"
    /\ GlucoseFieldOK(level)
    /\ LET reading == [glucose_level |-> level, date |-> date, meal_status |-> meal_status]
           errors == ws_inline_errors(reading, ws_handler[c].deps_today)
       IN  IF errors # <<>>
           THEN /\ ws_sent' = ws_send_message(c, [text |-> "could_not_validate",
                                                  errors |-> errors])
                /\ UNCHANGED ws_awaiting
           ELSE /\ ws_sent' = ws_send_reading_extracted(c, reading)
                /\ ws_awaiting' = [ws_awaiting EXCEPT ![c] = reading]
    /\ ws_handler' = [ws_handler EXCEPT ![c] = ws_Receiving]
    /\ UNCHANGED <<today, fn_vars, cx_vars, sv_vars, ws_readings, ws_active_connections,
                   ws_message_histories, ws_chats>>

\* extraction_agent.run returned InvalidReading: conversation_agent.run is
\* awaited with the connection's transcript.
ws_ExtractionInvalid(c) ==
    /\ ws_handler[c].pc = "extraction"
    /\ ws_handler' = [ws_handler EXCEPT ![c] =
           [pc |-> "conversation",
            message_history |-> IF ws_message_histories[c] = None
                                THEN <<>> ELSE ws_message_histories[c].messages]]
    /\ UNCHANGED <<today, fn_vars, cx_vars, sv_vars, ws_readings, ws_active_connections,
                   ws_message_histories, ws_chats, ws_sent, ws_awaiting>>

\* conversation_agent.run returned: the transcript is replaced by
\* result.all_messages() and the reply sent.
ws_ConversationDone(c) ==
    /\ ws_handler[c].pc = "conversation"
    /\ ws_message_histories' = [ws_message_histories EXCEPT ![c] =
           [messages |-> Append(ws_handler[c].message_history, "hello")]]
    /\ ws_sent' = ws_send_message(c, [text |-> "reply"])
    /\ ws_handler' = [ws_handler EXCEPT ![c] = ws_Receiving]
    /\ UNCHANGED <<today, fn_vars, cx_vars, sv_vars, ws_readings, ws_active_connections, ws_chats,
                   ws_awaiting>>

\* A collaborator call raised (model error, usage limit): the only handler
\* is `except WebSocketDisconnect`, so the exception ends the coroutine and
\* manager.disconnect is not called.
ws_CollaboratorFails(c) ==
    /\ ws_handler[c].pc \in {"extraction", "conversation"}
    /\ ws_handler' = [ws_handler EXCEPT ![c] = [pc |-> "crashed"]]
    /\ UNCHANGED <<today, fn_vars, cx_vars, sv_vars, ws_readings, ws_active_connections,
                   ws_message_histories, ws_chats, ws_sent, ws_awaiting>>

\* The confirm_reading branch with a suspension point between add_reading
\* and get_readings, during which another handler appends a reading of its
\* own (the other category): the store read back ends with that reading.
ws_ReceiveConfirmReading_interleaved(c, level, date, meal_status, confirm) ==
    /\ ws_handler[c].pc = "receive"
    /\ IF ~GlucoseFieldOK(level)
       THEN /\ ws_handler' = [ws_handler EXCEPT ![c] = [pc |-> "crashed"]]
            /\ UNCHANGED <<ws_readings, ws_sent, ws_awaiting>>
       ELSE /\ Len(ws_readings) < MaxStore
            /\ LET reading == [glucose_level |-> level, date |-> date,
                               meal_status |-> meal_status]
                   other == [reading EXCEPT !.meal_status =
                                 IF meal_status = FASTING THEN PRANDIAL ELSE FASTING]
                   readings == ws_get_readings(
                                   ws_add_reading(ws_add_reading(ws_readings, reading),
                                                  other))
                   trend_analysis == ws_trend_analysis(readings, reading)
               IN  /\ ws_readings' = readings
                   /\ ws_sent' = ws_send_message(c, [text |-> "saved",
                                                     trend |-> trend_analysis])
            /\ ws_awaiting' = [ws_awaiting EXCEPT ![c] = None]
            /\ UNCHANGED ws_handler
    /\ UNCHANGED <<today, fn_vars, cx_vars, sv_vars, ws_active_connections, ws_message_histories, ws_chats>>

\* action == "confirm_reading": the reading is rebuilt from the frame (the
\* constructor raises on a level outside Field(ge=30, le=600), which ends
\* the coroutine), appended to the store, and answered with its trend.  No
\* other key of the frame is read; `confirm` stands for a "confirm" key the
\* client may put in it.  (A malformed date or meal_status raises in the
\* same place and ends the coroutine like a level out of range.)
ws_ReceiveConfirmReading(c, level, date, meal_status, confirm) ==
    /\ ws_handler[c].pc = "receive"
    /\ IF ~GlucoseFieldOK(level)
       THEN /\ ws_handler' = [ws_handler EXCEPT ![c] = [pc |-> "crashed"]]
            /\ UNCHANGED <<ws_readings, ws_sent, ws_awaiting>>
       ELSE /\ Len(ws_readings) < MaxStore
            /\ LET reading == [glucose_level |-> level, date |-> date,
                               meal_status |-> meal_status]
                   readings == ws_get_readings(ws_add_reading(ws_readings, reading))
                   trend_analysis == ws_trend_analysis(readings, reading)
               IN  /\ ws_readings' = readings
                   /\ ws_sent' = ws_send_message(c, [text |-> "saved",
                                                     trend |-> trend_analysis])
            /\ ws_awaiting' = [ws_awaiting EXCEPT ![c] = None]
            /\ UNCHANGED ws_handler
    /\ UNCHANGED <<today, fn_vars, cx_vars, sv_vars, ws_active_connections, ws_message_histories, ws_chats>>

\* action == "get_history".
ws_ReceiveGetHistory(c) ==
    /\ ws_handler[c].pc = "receive"
    /\ ws_sent' = ws_send_history_update(c, ws_readings)
    /\ UNCHANGED <<today, fn_vars, cx_vars, sv_vars, ws_readings, ws_active_connections,
                   ws_message_histories, ws_handler, ws_chats, ws_awaiting>>

\* action == "get_stats".
ws_ReceiveGetStats(c) ==
    /\ ws_handler[c].pc = "receive"
    /\ ws_sent' = ws_send_stats_update(c, ws_readings)
    /\ UNCHANGED <<today, fn_vars, cx_vars, sv_vars, ws_readings, ws_active_connections,
                   ws_message_histories, ws_handler, ws_chats, ws_awaiting>>

\* The disconnect that also starts the store afresh (manager.db replaced by a
\* new BloodSugarDatabase).
ws_Disconnect_dropping_store(c) ==
    /\ ws_handler[c].pc = "receive"
    /\ ws_active_connections' = ws_disconnect(ws_active_connections, c)
    /\ ws_message_histories' = [ws_message_histories EXCEPT ![c] = None]
    /\ ws_handler' = [ws_handler EXCEPT ![c] = [pc |-> "closed"]]
    /\ ws_readings' = <<>>
    /\ UNCHANGED <<today, fn_vars, cx_vars, sv_vars, ws_chats, ws_sent, ws_awaiting>>

\* receive_text raised WebSocketDisconnect: manager.disconnect.
ws_Disconnect(c) ==
    /\ ws_handler[c].pc = "receive"
    /\ ws_active_connections' = ws_disconnect(ws_active_connections, c)
    /\ ws_message_histories' = [ws_message_histories EXCEPT ![c] = None]
    /\ ws_handler' = [ws_handler EXCEPT ![c] = [pc |-> "closed"]]
    /\ UNCHANGED <<today, fn_vars, cx_vars, sv_vars, ws_readings, ws_chats, ws_sent, ws_awaiting>>

\* ------------------------------------------ main_working_saving.py: SQL
\* INSERT OR IGNORE INTO users (session_id) VALUES (?)
sv_insert_user(users, session_id) == users \cup {session_id}

\* INSERT INTO readings (id, session_id, glucose_level, date, meal_status,
\* notes) VALUES (...): column confirmed takes its default, 0.
sv_insert_reading(rows, reading_id, session_id, glucose_level, date, meal_status) ==
    rows \cup {[id |-> reading_id, session_id |-> session_id,
                glucose_level |-> glucose_level, date |-> date,
                meal_status |-> meal_status, confirmed |-> 0]}

\* UPDATE readings SET confirmed = 1 WHERE id = ? AND session_id = ?
sv_update_confirmed(rows, reading_id, session_id) ==
    {IF row.id = reading_id /\ row.session_id = session_id
     THEN [row EXCEPT !.confirmed = 1] ELSE row : row \in rows}

\* DELETE FROM readings WHERE id = ?
sv_delete_reading(rows, reading_id) == {row \in rows : row.id # reading_id}

\* SELECT * FROM readings WHERE session_id = ? AND confirmed = 1: the rows
\* GET /readings/{session_id} returns (their order, by date, is left out).
sv_get_readings(rows, session_id) ==
    {row \in rows : row.session_id = session_id /\ row.confirmed = 1}

\* The date chat stores: a date in the future, or more than 90 days back,
\* is replaced by today.
sv_reading_date(date, today_) ==
    IF date > today_ \/ (today_ - date) > MaxAgeDays THEN today_ ELSE date

\* ------------------------------------------ main_working_saving.py: chat
\* chat up to the await of conversation_agent.run: the user row is written.
sv_ChatBegin(r, session_id) ==
    /\ sv_req[r].pc = "idle"
    /\ sv_chats < MaxSvChats
    /\ sv_chats' = sv_chats + 1
    /\ sv_users' = sv_insert_user(sv_users, session_id)
    /\ sv_req' = [sv_req EXCEPT ![r] = [pc |-> "conversation", session_id |-> session_id]]
    /\ UNCHANGED <<today, fn_vars, cx_vars, ws_vars, sv_readings, sv_uuid, sv_resp>>

\* conversation_agent.run returned: extraction_agent.run is awaited.
sv_ChatConversationDone(r) ==
    /\ sv_req[r].pc = "conversation"
    /\ sv_req' = [sv_req EXCEPT ![r].pc = "extraction"]
    /\ UNCHANGED <<today, fn_vars, cx_vars, ws_vars, sv_readings, sv_users, sv_uuid, sv_chats,
                   sv_resp>>

\* conversation_agent.run raised: the handlers re-raise it as HTTP 500.
sv_ChatConversationFails(r) ==
    /\ sv_req[r].pc = "conversation"
    /\ sv_resp' = [op |-> "chat", session_id |-> sv_req[r].session_id, status |-> 500,
                   response |-> "error", needs_confirmation |-> FALSE,
                   extracted_reading |-> None]
    /\ sv_req' = [sv_req EXCEPT ![r] = IdleReq]
    /\ UNCHANGED <<today, fn_vars, cx_vars, ws_vars, sv_readings, sv_users, sv_uuid, sv_chats>>

\* extraction_agent.run returned InvalidReading, or raised (the exception is
\* logged): the conversation reply is returned.
sv_ChatNoReading(r) ==
    /\ sv_req[r].pc = "extraction"
    /\ sv_resp' = [op |-> "chat", session_id |-> sv_req[r].session_id, status |-> 200,
                   response |-> "reply", needs_confirmation |-> FALSE,
                   extracted_reading |-> None]
    /\ sv_req' = [sv_req EXCEPT ![r] = IdleReq]
    /\ UNCHANGED <<today, fn_vars, cx_vars, ws_vars, sv_readings, sv_users, sv_uuid, sv_chats>>

\* extraction_agent.run returned a BloodSugarReading (this variant's model
\* puts no bound on glucose_level): an id is drawn, the date adjusted, the
\* row inserted unconfirmed (a failing INSERT is logged and skipped:
\* insert_ok = FALSE), and the reading returned for confirmation.
sv_ChatExtractionReading(r, level, date, meal_status, insert_ok) ==
    /\ sv_req[r].pc = "extraction"
    /\ LET session_id == sv_req[r].session_id
           reading_id == sv_uuid + 1
           reading_date == sv_reading_date(date, today)
       IN  /\ sv_uuid' = sv_uuid + 1
           /\ sv_readings' =
                  IF insert_ok
                  THEN sv_insert_reading(sv_readings, reading_id, session_id, level,
                                         reading_date, meal_status)
                  ELSE sv_readings
           /\ sv_resp' = [op |-> "chat", session_id |-> session_id, status |-> 200,
                          response |-> "is_this_correct", needs_confirmation |-> TRUE,
                          extracted_reading |->
                              [id |-> reading_id, glucose_level |-> level,
                               date |-> reading_date, meal_status |-> meal_status]]
    /\ sv_req' = [sv_req EXCEPT ![r] = IdleReq]
    /\ UNCHANGED <<today, fn_vars, cx_vars, ws_vars, sv_users, sv_chats>>

\* ------------------------------- main_working_saving.py: confirm_reading
sv_ConfirmReading(session_id, reading_id, confirm) ==
    /\ IF confirm
       THEN /\ sv_readings' = sv_update_confirmed(sv_readings, reading_id, session_id)
            /\ sv_resp' = [op |-> "confirm_reading", session_id |-> session_id,
                           reading_id |-> reading_id, status |-> 200,
                           message |-> "saved"]
       ELSE /\ sv_readings' = sv_delete_reading(sv_readings, reading_id)
            /\ sv_resp' = [op |-> "confirm_reading", session_id |-> session_id,
                           reading_id |-> reading_id, status |-> 200,
                           message |-> "try_again"]
    /\ UNCHANGED <<today, fn_vars, cx_vars, ws_vars, sv_users, sv_uuid, sv_chats, sv_req>>

\* ---------------------------------- main_working_saving.py: get_readings
sv_GetReadings(session_id) ==
    /\ sv_resp' = [op |-> "get_readings", session_id |-> session_id, status |-> 200,
                   readings |-> sv_get_readings(sv_readings, session_id)]
    /\ UNCHANGED <<today, fn_vars, cx_vars, ws_vars, sv_readings, sv_users, sv_uuid, sv_chats,
                   sv_req>>

\* ------------------------------------------- direct calls of pure functions
\* Levels of the readings handed to the trend functions: 100 with its
\* neighbours on both edges of the dead zone.
TrendLevels == {90, 100, 109, 110}
\* Levels of the readings handed to the statistics functions.
StatsLevels == {90, 110, 150}
\* Levels handed to the validators: both edges of [30, 600], from both sides
\* (pydantic checks a level when a reading is built, not when the attribute
\* is assigned, so a reading object can carry any level).
ValidatorLevels == {MinGlucose - 1, MinGlucose, MaxGlucose, MaxGlucose + 1}
TrendReadings == [glucose_level : TrendLevels, date : {0}, meal_status : MealStatus]
StatsReadings == [glucose_level : StatsLevels, date : {0}, meal_status : MealStatus]
ValidatorReadings ==
    [glucose_level : ValidatorLevels, date : 0..(MaxDay + 1), meal_status : MealStatus]
TrendHistories == UNION {[1..n -> TrendReadings] : n \in 0..MaxHistory}
StatsHistories == UNION {[1..n -> StatsReadings] : n \in 0..MaxHistory}

fn_Returns(op, result) ==
    /\ fn_call.op = op
    /\ fn_result = None
    /\ fn_result' = result
    /\ UNCHANGED <<today, fn_call, cx_vars, ws_vars, sv_vars>>

fn_validate_blood_sugar ==
    fn_Returns("validate_blood_sugar",
               validate_blood_sugar(fn_call.reading, fn_call.today))

fn_validate_reading ==
    fn_Returns("validate_reading", validate_reading(fn_call.reading, fn_call.today))

\* The validation of the chat branch of websocket_endpoint and the frame it
\* sends: the refusal with "; ".join(errors), or reading_extracted.
fn_inline_validation ==
    fn_Returns("inline_validation",
               LET reading == fn_call.reading
                   errors == ws_inline_errors(reading, fn_call.today)
               IN  IF errors # <<>>
                   THEN ws_send_message("c1", [text |-> "could_not_validate",
                                               errors |-> errors])
                   ELSE ws_send_reading_extracted("c1", reading))

fn_analyze_trend ==
    fn_Returns("analyze_trend",
               analyze_trend(fn_call.previous_readings, fn_call.new_reading))

fn_ws_analyze_trend ==
    fn_Returns("ws_analyze_trend",
               ws_analyze_trend(fn_call.previous_readings, fn_call.new_reading))

\* The trend analysis of the confirm_reading branch, after the append of
\* new_reading to a store holding previous_readings.
fn_ws_trend_analysis ==
    fn_Returns("ws_trend_analysis",
               ws_trend_analysis(
                   ws_get_readings(ws_add_reading(fn_call.previous_readings,
                                                  fn_call.new_reading)),
                   fn_call.new_reading))

fn_get_stats == fn_Returns("get_stats", get_stats(fn_call.readings))

fn_ws_get_statistics ==
    fn_Returns("ws_get_statistics", ws_get_statistics(fn_call.readings))

\* ------------------------------------------------------------------ clock
NewDay ==
    /\ today < MaxDay
    /\ today' = today + 1

\* ----------------------------------------------------------- specifications
cx_Init ==
    /\ cx_readings = [s \in Sessions |-> <<>>]
    /\ cx_message_history = [s \in Sessions |-> <<>>]
    /\ cx_pending_readings = [s \in Sessions |-> None]
    /\ cx_uuid = 0
    /\ cx_chats = 0
    /\ cx_req = [r \in Reqs |-> IdleReq]
    /\ cx_resp = [op |-> "none"]

ws_Init ==
    /\ ws_readings = <<>>
    /\ ws_active_connections = {}
    /\ ws_message_histories = [c \in Conns |-> None]
    /\ ws_handler = [c \in Conns |-> [pc |-> "new"]]
    /\ ws_chats = 0
    /\ ws_sent = [type |-> "none"]
    /\ ws_awaiting = [c \in Conns |-> None]

sv_Init ==
    /\ sv_readings = {}
    /\ sv_users = {}
    /\ sv_uuid = 0
    /\ sv_chats = 0
    /\ sv_req = [r \in Reqs |-> IdleReq]
    /\ sv_resp = [op |-> "none"]

\* No direct call of a pure function is under way.
fn_Init ==
    /\ fn_call = [op |-> "none"]
    /\ fn_result = None

Init ==
    /\ today = 0
    /\ cx_Init
    /\ ws_Init
    /\ sv_Init
    /\ fn_Init

cx_Next ==
    \/ \E r \in Reqs, s \in Sessions, m \in Messages : cx_ChatBegin(r, s, m)
    \/ \E r \in Reqs : cx_ChatConversationDone(r)
    \/ \E r \in Reqs : cx_ChatCollaboratorFails(r)
    \/ \E r \in Reqs : cx_ChatExtractionInvalid(r)
    \/ \E r \in Reqs, l \in RawLevels, d \in RawDates, m \in MealStatus :
           cx_ChatExtractionReading(r, l, d, m)
    \/ \E s \in Sessions, i \in 1..MaxChats, c \in BOOLEAN : cx_ConfirmReading(s, i, c)
    \/ \E s \in Sessions : cx_GetReadings(s)
    \/ \E s \in Sessions : cx_GetStats(s)
    \/ NewDay /\ UNCHANGED <<fn_vars, cx_vars, ws_vars, sv_vars>>

SpecComplex == Init /\ [][cx_Next]_vars

ws_Next ==
    \/ \E c \in Conns : ws_Connect(c)
    \/ \E c \in Conns : ws_ReceiveMessage(c)
    \/ \E c \in Conns, l \in RawLevels, d \in RawDates, m \in MealStatus :
           ws_ExtractionReading(c, l, d, m)
    \/ \E c \in Conns : ws_ExtractionInvalid(c)
    \/ \E c \in Conns : ws_ConversationDone(c)
    \/ \E c \in Conns : ws_CollaboratorFails(c)
    \/ \E c \in Conns, l \in RawLevels, d \in RawDates, m \in MealStatus, k \in BOOLEAN :
           ws_ReceiveConfirmReading(c, l, d, m, k)
    \/ \E c \in Conns : ws_ReceiveGetHistory(c)
    \/ \E c \in Conns : ws_ReceiveGetStats(c)
    \/ \E c \in Conns : ws_Disconnect(c)
    \/ NewDay /\ UNCHANGED <<fn_vars, cx_vars, ws_vars, sv_vars>>

SpecWS == Init /\ [][ws_Next]_vars

sv_Next ==
    \/ \E r \in Reqs, s \in Sessions : sv_ChatBegin(r, s)
    \/ \E r \in Reqs : sv_ChatConversationDone(r)
    \/ \E r \in Reqs : sv_ChatConversationFails(r)
    \/ \E r \in Reqs : sv_ChatNoReading(r)
    \/ \E r \in Reqs, l \in SvLevels, d \in RawDates, m \in SvMealStatus, ok \in BOOLEAN :
           sv_ChatExtractionReading(r, l, d, m, ok)
    \/ \E s \in Sessions, i \in 1..MaxSvChats, c \in BOOLEAN : sv_ConfirmReading(s, i, c)
    \/ \E s \in Sessions : sv_GetReadings(s)
    \/ NewDay /\ UNCHANGED <<fn_vars, cx_vars, ws_vars, sv_vars>>

SpecSaving == Init /\ [][sv_Next]_vars

\* Either server runs, main_complex.py or main.py: a step of one is taken
\* only while the other is as it was constructed, so every behaviour is a
\* behaviour of one of the two programs.
cxws_Next ==
    \/ ws_Init /\ cx_Next
    \/ cx_Init /\ ws_Next

SpecComplexOrWS == Init /\ [][cxws_Next]_vars

\* Either server runs, main_complex.py or main_working_saving.py.
cxsv_Next ==
    \/ sv_Init /\ cx_Next
    \/ cx_Init /\ sv_Next

SpecComplexOrSaving == Init /\ [][cxsv_Next]_vars

\* One direct call of a pure function: the function and its arguments.
fn_InitCall ==
    /\ today = 0
    /\ cx_Init
    /\ ws_Init
    /\ sv_Init
    /\ fn_result = None
    /\ \/ \E o \in {"validate_blood_sugar", "validate_reading", "inline_validation"},
             r \in ValidatorReadings, d \in 0..MaxDay :
              fn_call = [op |-> o, reading |-> r, today |-> d]
       \/ \E o \in {"analyze_trend", "ws_analyze_trend", "ws_trend_analysis"},
             h \in TrendHistories, r \in TrendReadings :
              fn_call = [op |-> o, previous_readings |-> h, new_reading |-> r]
       \/ \E o \in {"get_stats", "ws_get_statistics"}, h \in StatsHistories :
              fn_call = [op |-> o, readings |-> h]

fn_Next ==
    \/ fn_validate_blood_sugar
    \/ fn_validate_reading
    \/ fn_inline_validation
    \/ fn_analyze_trend
    \/ fn_ws_analyze_trend
    \/ fn_ws_trend_analysis
    \/ fn_get_stats
    \/ fn_ws_get_statistics

SpecFunctions == fn_InitCall /\ [][fn_Next]_vars

\* ---------------------------------------------------- claims: main_complex.py
AllButLast(seq) == SubSeq(seq, 1, Len(seq) - 1)
Last(seq) == seq[Len(seq)]

\* The last response is the "saved" answer of confirm_reading for session s.
cx_SavedFor(s) ==
    /\ cx_resp.op = "confirm_reading"
    /\ cx_resp.session_id = s
    /\ cx_resp.status = 200
    /\ cx_resp.message = "saved"

\* C1: a confirm_reading(confirm=true) step of a session that has a pending
\* reading appends exactly that reading to the session's confirmed list,
\* empties the session's pending slot, and changes no other session's
\* confirmed list or pending slot.
C1_ConfirmCommitsPending ==
    [][\A s \in Sessions, i \in 1..MaxChats :
          (cx_ConfirmReading(s, i, TRUE) /\ cx_pending_readings[s] # None) =>
              /\ cx_readings'[s] = Append(cx_readings[s], cx_pending_readings[s])
              /\ Len(cx_readings'[s]) = Len(cx_readings[s]) + 1
              /\ cx_pending_readings'[s] = None
              /\ \A o \in Sessions \ {s} :
                     /\ cx_readings'[o] = cx_readings[o]
                     /\ cx_pending_readings'[o] = cx_pending_readings[o]]_vars

\* C1 witness: a reading was just committed for one session while another
\* session holds a pending reading of its own.
C1_Witness ==
    \E s \in Sessions :
        /\ cx_SavedFor(s)
        /\ Len(cx_readings[s]) = 1
        /\ cx_pending_readings[s] = None
        /\ \E o \in Sessions \ {s} : cx_pending_readings[o] # None

\* C2: the trend returned with "saved" is the analysis of the committed
\* reading against the confirmed history as it was before the commit (the
\* list without its new last element); so a first confirmation reports
\* "first recorded reading".
C2_TrendAgainstPreCommitHistory ==
    \A s \in Sessions :
        cx_SavedFor(s) =>
            cx_resp.trend = analyze_trend(AllButLast(cx_readings[s]), Last(cx_readings[s]))

\* C5: every pending reading, and every confirmed reading, has a level
\* within [30, 600] and a date that is not after today.
cx_PassesValidator(reading) ==
    /\ reading.glucose_level >= MinGlucose
    /\ reading.glucose_level <= MaxGlucose
    /\ reading.date <= today

C5_PendingPassesValidator ==
    \A s \in Sessions :
        /\ cx_pending_readings[s] # None => cx_PassesValidator(cx_pending_readings[s])
        /\ \A k \in 1..Len(cx_readings[s]) : cx_PassesValidator(cx_readings[s][k])

\* The last response is the 404 of confirm_reading for session s.
cx_NoPendingFor(s) ==
    /\ cx_resp.op = "confirm_reading"
    /\ cx_resp.session_id = s
    /\ cx_resp.status = 404

\* C11: a confirm_reading(confirm=true) step of a session that has no
\* pending reading is answered 404 "No pending reading found" and leaves
\* every session's confirmed list, pending slot and transcript unchanged.
C11_ConfirmWithoutPendingFails ==
    [][\A s \in Sessions, i \in 1..MaxChats :
          (cx_ConfirmReading(s, i, TRUE) /\ cx_pending_readings[s] = None) =>
              /\ cx_resp'.status = 404
              /\ cx_resp'.message = "no_pending_reading"
              /\ cx_readings' = cx_readings
              /\ cx_pending_readings' = cx_pending_readings
              /\ cx_message_history' = cx_message_history]_vars

\* C11 witness: a confirm_reading of a session with nothing pending was
\* just refused while another session holds a pending reading and a
\* confirmed one.
C11_Witness ==
    \E s \in Sessions :
        /\ cx_NoPendingFor(s)
        /\ cx_pending_readings[s] = None
        /\ \E o \in Sessions \ {s} :
               /\ cx_pending_readings[o] # None
               /\ cx_readings[o] # <<>>

\* C12: a confirm_reading(confirm=false) step of a session that has no
\* pending reading succeeds (it is not answered with an error) and changes
\* no confirmed list, pending slot or transcript.
C12_RejectWithoutPendingSucceeds ==
    [][\A s \in Sessions, i \in 1..MaxChats :
          (cx_ConfirmReading(s, i, FALSE) /\ cx_pending_readings[s] = None) =>
              /\ cx_resp'.status = 200
              /\ cx_readings' = cx_readings
              /\ cx_pending_readings' = cx_pending_readings
              /\ cx_message_history' = cx_message_history]_vars

\* C13: a chat turn of a session that already has a pending reading is a
\* fresh extraction attempt: once the conversation reply is in, the turn
\* goes on to ask the extraction collaborator (whose candidate, if any,
\* would then replace the pending reading).
C13_ChatWhilePendingExtractsAgain ==
    [][\A r \in Reqs :
          (cx_ChatConversationDone(r)
             /\ cx_pending_readings[cx_req[r].session_id] # None) =>
              cx_req'[r].pc = "extraction"]_vars

\* C15: the pending slot of a session changes only with a chat response
\* of that session that has needs_confirmation=true, after which it holds
\* the extracted_reading of that response, and with a 200 answer of that
\* session's confirm_reading (confirm or reject), after which it is empty;
\* so the slot is non-empty exactly when the latest of these events is the
\* chat turn.  A chat response has needs_confirmation=true exactly when its
\* turn stored its extracted_reading in the slot: such a response comes with
\* the slot changed to that reading, and any other chat response comes with
\* every slot as it was.
C15_PendingIffLastEventIsExtraction ==
    [][/\ \A s \in Sessions :
             cx_pending_readings'[s] # cx_pending_readings[s] =>
                 \/ /\ cx_pending_readings'[s] # None
                    /\ cx_resp'.op = "chat"
                    /\ cx_resp'.session_id = s
                    /\ cx_resp'.needs_confirmation
                    /\ cx_resp'.extracted_reading = cx_pending_readings'[s]
                 \/ /\ cx_pending_readings'[s] = None
                    /\ cx_resp'.op = "confirm_reading"
                    /\ cx_resp'.session_id = s
                    /\ cx_resp'.status = 200
       /\ (cx_resp'.op = "chat" /\ cx_resp' # cx_resp) =>
             IF cx_resp'.needs_confirmation
             THEN /\ cx_pending_readings'[cx_resp'.session_id]
                        # cx_pending_readings[cx_resp'.session_id]
                  /\ cx_pending_readings'[cx_resp'.session_id]
                        = cx_resp'.extracted_reading
             ELSE cx_pending_readings' = cx_pending_readings
       /\ cx_resp'.op = "confirm_reading" =>
             cx_pending_readings'[cx_resp'.session_id] = None]_vars

\* C15 witness: a session whose reading was confirmed and whose later chat
\* turn has just stored a new pending reading.
C15_Witness ==
    \E s \in Sessions :
        /\ cx_resp.op = "chat"
        /\ cx_resp.session_id = s
        /\ cx_resp.needs_confirmation
        /\ cx_pending_readings[s] = cx_resp.extracted_reading
        /\ cx_readings[s] # <<>>

\* ------------------------------------------------------------ claims: main.py
\* C3: a confirm_reading action on a connection with no candidate awaiting
\* confirmation adds nothing to the confirmed readings.
C3_ConfirmWithoutCandidateAddsNothing ==
    [][\A c \in Conns, l \in RawLevels, d \in RawDates, m \in MealStatus, k \in BOOLEAN :
          (ws_ReceiveConfirmReading(c, l, d, m, k) /\ ws_awaiting[c] = None) =>
              ws_readings' = ws_readings]_vars

\* C4: a confirm_reading action that carries confirm=false leaves the number
\* of confirmed readings unchanged.
C4_RejectLeavesStoreUnchanged ==
    [][\A c \in Conns, l \in RawLevels, d \in RawDates, m \in MealStatus :
          ws_ReceiveConfirmReading(c, l, d, m, FALSE) =>
              Len(ws_readings') = Len(ws_readings)]_vars

\* C6: every reading in the confirmed store has a level within [30, 600]
\* and a date that is not after today (the clock never goes back, so a date
\* that was not after today at the commit never is later).
C6_StoredReadingsPassValidator ==
    \A k \in 1..Len(ws_readings) :
        /\ ws_readings[k].glucose_level >= MinGlucose
        /\ ws_readings[k].glucose_level <= MaxGlucose
        /\ ws_readings[k].date <= today

\* C10: what a connection would be sent as history_update and stats_update
\* is unaffected by a confirm_reading action of any other connection.
C10_ConnectionsIndependent ==
    [][\A c \in Conns, o \in Conns, l \in RawLevels, d \in RawDates, m \in MealStatus,
          k \in BOOLEAN :
          (o # c /\ ws_ReceiveConfirmReading(o, l, d, m, k)) =>
              /\ ws_send_history_update(c, ws_readings')
                     = ws_send_history_update(c, ws_readings)
              /\ ws_send_stats_update(c, ws_readings')
                     = ws_send_stats_update(c, ws_readings)]_vars

\* ---------------------------------------------- claims: main_working_saving.py
\* C7: after confirm_reading(confirm=true) has answered "saved", a row with
\* the request's reading_id and session_id exists with confirmed = 1.
C7_SavedMeansConfirmedRow ==
    (/\ sv_resp.op = "confirm_reading"
     /\ sv_resp.message = "saved") =>
        \E row \in sv_readings :
            /\ row.id = sv_resp.reading_id
            /\ row.session_id = sv_resp.session_id
            /\ row.confirmed = 1

\* C8: a reading that get_readings returns for a session is returned by it
\* after every later request.
C8_ConfirmedReadingsStay ==
    [][\A s \in Sessions :
          sv_get_readings(sv_readings, s) \subseteq sv_get_readings(sv_readings', s)]_vars

\* C14: every session has at most one unconfirmed row in table "readings".
sv_Unconfirmed(rows, session_id) ==
    {row \in rows : row.session_id = session_id /\ row.confirmed = 0}

C14_AtMostOneUnconfirmedRow ==
    \A s \in Sessions : Cardinality(sv_Unconfirmed(sv_readings, s)) <= 1

\* C9: a confirm_reading request of session a leaves the rows of every
\* other session as they were.
sv_RowsOf(rows, session_id) == {row \in rows : row.session_id = session_id}

C9_ConfirmTouchesOwnSessionOnly ==
    [][\A a \in Sessions, i \in 1..MaxSvChats, k \in BOOLEAN :
          sv_ConfirmReading(a, i, k) =>
              \A b \in Sessions \ {a} :
                  sv_RowsOf(sv_readings', b) = sv_RowsOf(sv_readings, b)]_vars

\* ------------------------------------------------- claims: pure functions
\* The call of function op has returned.
fn_Returned(op) == fn_call.op = op /\ fn_result # None

\* The indices of the readings of h that have the category of new_reading,
\* and the sum of the levels at a set of indices.
SameCategory(h, new_reading) ==
    {k \in 1..Len(h) : h[k].meal_status = new_reading.meal_status}

CategoryIdx(h, meal_status) == {k \in 1..Len(h) : h[k].meal_status = meal_status}

RECURSIVE SumAt(_, _)
SumAt(h, idx) ==
    IF idx = {} THEN 0
    ELSE LET k == CHOOSE j \in idx : TRUE
         IN  h[k].glucose_level + SumAt(h, idx \ {k})

\* tenths is the fraction num / den to the nearest tenth.
NearestTenth(tenths, num, den) == 2 * Abs(10 * num - tenths * den) <= den

\* C16: each of validate_blood_sugar, validate_reading and the inline check
\* of the chat branch accepts a candidate exactly when 30 <= level <= 600
\* and date <= today; a refusal lists the level violation, then the date
\* violation, each exactly when it occurs (both when both do); an accepted
\* candidate is returned, or sent as reading_extracted, as it came.
C16_Violations(reading, today_) ==
    LET level_bad == ~(MinGlucose <= reading.glucose_level
                         /\ reading.glucose_level <= MaxGlucose)
        date_bad == ~(reading.date <= today_)
    IN  IF level_bad /\ date_bad THEN <<"level_outside_range", "date_in_future">>
        ELSE IF level_bad THEN <<"level_outside_range">>
        ELSE IF date_bad THEN <<"date_in_future">>
        ELSE <<>>

C16_ValidationCopiesAgree ==
    /\ fn_Returned("validate_blood_sugar") =>
           LET violations == C16_Violations(fn_call.reading, fn_call.today)
           IN  IF violations = <<>>
               THEN fn_result = fn_call.reading
               ELSE /\ fn_result # fn_call.reading
                    /\ fn_result.type = "InvalidReading"
                    /\ fn_result.reason.parts = violations
    /\ fn_Returned("validate_reading") =>
           LET violations == C16_Violations(fn_call.reading, fn_call.today)
           IN  /\ fn_result.is_valid = (violations = <<>>)
               /\ fn_result.error_message.parts = violations
    /\ fn_Returned("inline_validation") =>
           LET violations == C16_Violations(fn_call.reading, fn_call.today)
           IN  IF violations = <<>>
               THEN /\ fn_result.type = "reading_extracted"
                    /\ fn_result.reading = fn_call.reading
               ELSE /\ fn_result.type = "message"
                    /\ fn_result.message.errors = violations

\* C16 witness: the inline check has refused a candidate with a level above
\* 600 and a date after today, with both messages.
C16_Witness ==
    /\ fn_Returned("inline_validation")
    /\ fn_call.reading.glucose_level > MaxGlucose
    /\ fn_call.reading.date > fn_call.today
    /\ fn_result.type = "message"
    /\ Len(fn_result.message.errors) = 2

\* C17: analyze_trend (main.py and main_complex.py) answers "first recorded
\* reading" exactly when the history is empty, "first <category> reading"
\* exactly when the history is not empty and holds no reading of the
\* candidate's category, and otherwise a comparison whose average is the
\* mean of the levels of the same-category readings (printed to one
\* decimal), the same as for the history without the other category.
C17_TrendUsesSameCategoryOnly ==
    (fn_Returned("analyze_trend") \/ fn_Returned("ws_analyze_trend")) =>
        LET h == fn_call.previous_readings
            new_reading == fn_call.new_reading
            idx == SameCategory(h, new_reading)
            same == SelectSeq(h, LAMBDA r : r.meal_status = new_reading.meal_status)
        IN  /\ (fn_result.kind = "first_recorded") = (Len(h) = 0)
            /\ (fn_result.kind = "first_of_status") = (Len(h) > 0 /\ idx = {})
            /\ fn_result.kind = "first_of_status" =>
                   fn_result.meal_status = new_reading.meal_status
            /\ (Len(h) > 0 /\ idx # {}) =>
                   /\ fn_result.kind \in {"consistent", "higher", "lower"}
                   /\ fn_result.meal_status = new_reading.meal_status
                   /\ NearestTenth(fn_result.avg, SumAt(h, idx), Cardinality(idx))
                   /\ fn_result = IF fn_call.op = "analyze_trend"
                                  THEN analyze_trend(same, new_reading)
                                  ELSE ws_analyze_trend(same, new_reading)

\* C17 witness: analyze_trend of main_complex.py has compared a candidate
\* with a history that holds readings of both categories, levels of the
\* other category differing from those of the candidate's.
C17_Witness ==
    /\ fn_Returned("analyze_trend")
    /\ fn_result.kind = "consistent"
    /\ LET h == fn_call.previous_readings
           idx == SameCategory(h, fn_call.new_reading)
       IN  /\ idx # {}
           /\ SumAt(h, idx) = 100 * Cardinality(idx)
           /\ \E k \in 1..Len(h) : k \notin idx /\ h[k].glucose_level = 90

\* C18: with avg the mean of the same-category readings, the trend is
\* "consistent" exactly when |level - avg| < 10, "higher" by level - avg
\* exactly when level - avg >= 10, "lower" by avg - level exactly when
\* avg - level >= 10; with avg = 100: 109 is consistent, 110 is higher by
\* 10.0, 90 is lower by 10.0.  (n * avg = s for n readings of sum s.)
C18_StrictDeadZone ==
    (fn_Returned("analyze_trend") \/ fn_Returned("ws_analyze_trend")
       \/ fn_Returned("ws_trend_analysis")) =>
        LET h == fn_call.previous_readings
            idx == SameCategory(h, fn_call.new_reading)
            n == Cardinality(idx)
            s == SumAt(h, idx)
            level == fn_call.new_reading.glucose_level
        IN  idx # {} =>
              /\ (fn_result.kind = "consistent") = (Abs(level * n - s) < 10 * n)
              /\ (fn_result.kind = "higher") = (level * n - s >= 10 * n)
              /\ (fn_result.kind = "lower") = (s - level * n >= 10 * n)
              /\ fn_result.kind = "higher" =>
                     NearestTenth(fn_result.by, level * n - s, n)
              /\ fn_result.kind = "lower" =>
                     NearestTenth(fn_result.by, s - level * n, n)
              /\ (s = 100 * n /\ level = 109) => fn_result.kind = "consistent"
              /\ (s = 100 * n /\ level = 110) =>
                     fn_result.kind = "higher" /\ fn_result.by = 100
              /\ (s = 100 * n /\ level = 90) =>
                     fn_result.kind = "lower" /\ fn_result.by = 100

\* C18 witness: the inline trend analysis has answered "higher by 10.0" for
\* level 110 against an average of 100.0 over two readings.
C18_Witness ==
    /\ fn_Returned("ws_trend_analysis")
    /\ fn_call.new_reading.glucose_level = 110
    /\ Cardinality(SameCategory(fn_call.previous_readings, fn_call.new_reading)) = 2
    /\ fn_result.kind = "higher"
    /\ fn_result.by = 100
    /\ fn_result.avg = 1000

\* What C19 says of every statistics answer but the value of the averages:
\* the total is the number of readings, which is the fasting count plus the
\* prandial count, and a category's average is reported exactly when the
\* category has a reading (so none is reported for no readings).
C19_CountsAndPresence ==
    /\ fn_Returned("get_stats") =>
           LET h == fn_call.readings
           IN  /\ fn_result.total_readings = Len(h)
               /\ fn_result.total_readings =
                      Cardinality(CategoryIdx(h, FASTING))
                      + Cardinality(CategoryIdx(h, PRANDIAL))
               /\ (fn_result.average_fasting # None) = (CategoryIdx(h, FASTING) # {})
               /\ (fn_result.average_prandial # None) = (CategoryIdx(h, PRANDIAL) # {})
    /\ fn_Returned("ws_get_statistics") =>
           LET h == fn_call.readings
           IN  /\ fn_result.total_readings = Len(h)
               /\ fn_result.total_readings =
                      Cardinality(CategoryIdx(h, FASTING))
                      + Cardinality(CategoryIdx(h, PRANDIAL))
               /\ ("avg_fasting" \in DOMAIN fn_result) = (CategoryIdx(h, FASTING) # {})
               /\ ("avg_prandial" \in DOMAIN fn_result) = (CategoryIdx(h, PRANDIAL) # {})
               /\ fn_result.has_fasting = (CategoryIdx(h, FASTING) # {})
               /\ fn_result.has_prandial = (CategoryIdx(h, PRANDIAL) # {})

\* The average get_stats of main_complex.py reports for a category is the
\* mean of the category's levels.
C19_ComplexAveragesExact ==
    fn_Returned("get_stats") =>
        \A m \in MealStatus :
            LET h == fn_call.readings
                idx == CategoryIdx(h, m)
                avg == IF m = FASTING THEN fn_result.average_fasting
                       ELSE fn_result.average_prandial
            IN  idx # {} => avg.num * Cardinality(idx) = avg.den * SumAt(h, idx)

\* C19 as claimed: for get_stats of main_complex.py and get_statistics of
\* main.py alike, counts and presence are as above and a reported average
\* equals the arithmetic mean of its category's levels (avg * n = sum; the
\* averages of main.py are in tenths).
C19_StatsAreExactMeans ==
    /\ C19_CountsAndPresence
    /\ C19_ComplexAveragesExact
    /\ fn_Returned("ws_get_statistics") =>
           LET h == fn_call.readings
               f == CategoryIdx(h, FASTING)
               p == CategoryIdx(h, PRANDIAL)
           IN  /\ f # {} => fn_result.avg_fasting * Cardinality(f) = 10 * SumAt(h, f)
               /\ p # {} => fn_result.avg_prandial * Cardinality(p) = 10 * SumAt(h, p)

\* C19 amended: counts and presence are as above; a reported average is the
\* arithmetic mean of its category's levels in main_complex.py, and that
\* mean rounded to one decimal place in main.py; {90 fasting, 110 fasting,
\* 150 prandial} gives total 3, fasting 100.0 and prandial 150.0 in both.
C19_StatsAreMeansRoundedInWS ==
    /\ C19_CountsAndPresence
    /\ C19_ComplexAveragesExact
    /\ fn_Returned("ws_get_statistics") =>
           LET h == fn_call.readings
               f == CategoryIdx(h, FASTING)
               p == CategoryIdx(h, PRANDIAL)
           IN  /\ f # {} =>
                      NearestTenth(fn_result.avg_fasting, SumAt(h, f), Cardinality(f))
               /\ p # {} =>
                      NearestTenth(fn_result.avg_prandial, SumAt(h, p), Cardinality(p))
    /\ (fn_call.op \in {"get_stats", "ws_get_statistics"} /\ fn_result # None
          /\ fn_call.readings =
                 <<[glucose_level |-> 90, date |-> 0, meal_status |-> FASTING],
                   [glucose_level |-> 110, date |-> 0, meal_status |-> FASTING],
                   [glucose_level |-> 150, date |-> 0, meal_status |-> PRANDIAL]>>) =>
           /\ fn_result.total_readings = 3
           /\ fn_call.op = "get_stats" =>
                  /\ fn_result.average_fasting = [num |-> 100, den |-> 1]
                  /\ fn_result.average_prandial = [num |-> 150, den |-> 1]
           /\ fn_call.op = "ws_get_statistics" =>
                  /\ fn_result.avg_fasting = 1000
                  /\ fn_result.avg_prandial = 1500

\* C19 witness: get_statistics of main.py has reported, for three fasting
\* readings whose mean is not a whole number of tenths, an average that is
\* the rounded mean and not the mean.
C19_Witness ==
    /\ fn_Returned("ws_get_statistics")
    /\ LET h == fn_call.readings
           f == CategoryIdx(h, FASTING)
       IN  /\ Cardinality(f) = 3
           /\ fn_result.total_readings = 3
           /\ "avg_prandial" \notin DOMAIN fn_result
           /\ fn_result.avg_fasting * 3 # 10 * SumAt(h, f)

\* ------------------------------------- claims: main_complex.py and main.py
\* C20: GET /readings and GET /stats of main_complex.py can be asked of any
\* session in every state, answer 200 and leave every session's confirmed
\* list, pending slot and transcript unchanged; for a session with no
\* confirmed reading (a key the store has never seen) they answer the empty
\* list and total 0.  get_history and get_stats of main.py can be received
\* whenever the handler waits for a frame, are answered to the sender, and
\* leave the store, the transcripts and the candidates awaiting
\* confirmation unchanged.  (A query step is a step that sends a query's
\* answer; one that repeats the last answer changes nothing at all.)
C20_QueriesAreReadOnly ==
    [][/\ \A s \in Sessions : ENABLED cx_GetReadings(s) /\ ENABLED cx_GetStats(s)
       /\ (cx_resp' # cx_resp /\ cx_resp'.op \in {"get_readings", "get_stats"}) =>
             /\ cx_resp'.status = 200
             /\ UNCHANGED <<cx_readings, cx_pending_readings, cx_message_history>>
             /\ cx_readings[cx_resp'.user_id] = <<>> =>
                    IF cx_resp'.op = "get_readings"
                    THEN cx_resp'.readings = <<>>
                    ELSE /\ cx_resp'.stats.total_readings = 0
                         /\ cx_resp'.stats.average_fasting = None
                         /\ cx_resp'.stats.average_prandial = None
       /\ \A c \in Conns :
             ws_handler[c].pc = "receive" =>
                 ENABLED ws_ReceiveGetHistory(c) /\ ENABLED ws_ReceiveGetStats(c)
       /\ (ws_sent' # ws_sent /\ ws_sent'.type \in {"history_update", "stats_update"}) =>
             /\ ws_handler[ws_sent'.to].pc = "receive"
             /\ UNCHANGED <<ws_readings, ws_message_histories, ws_awaiting,
                            ws_active_connections>>
             /\ ws_readings = <<>> =>
                    IF ws_sent'.type = "history_update"
                    THEN ws_sent'.readings = <<>>
                    ELSE ws_sent'.stats.total_readings = 0]_vars

\* C20 witness: GET /stats has answered total 0 for a session that has sent
\* nothing yet, while another session holds a confirmed reading and a
\* pending one.
C20_Witness ==
    \E s \in Sessions :
        /\ cx_resp.op = "get_stats"
        /\ cx_resp.user_id = s
        /\ cx_resp.stats.total_readings = 0
        /\ cx_readings[s] = <<>>
        /\ cx_message_history[s] = <<>>
        /\ cx_pending_readings[s] = None
        /\ \E o \in Sessions \ {s} :
               cx_readings[o] # <<>> /\ cx_pending_readings[o] # None

\* ---------------------------------- claims: confirmed history and transport
\* a is a prefix of b.
IsPrefix(a, b) == Len(a) <= Len(b) /\ SubSeq(b, 1, Len(a)) = a

\* C21: the confirmed history of main_complex.py (per session) and of
\* main.py is append-only: over every step the list before is a prefix of
\* the list after (so the list at any earlier time is a prefix of the list
\* at any later time: nothing is removed, reordered or modified), and a step
\* that changes a list is a confirmation answered "saved" that puts its
\* reading at the end (the pending reading in main_complex.py), so the list
\* is in confirmation order.
C21_ConfirmedHistoryAppendOnly ==
    [][/\ \A s \in Sessions :
             /\ IsPrefix(cx_readings[s], cx_readings'[s])
             /\ cx_readings'[s] # cx_readings[s] =>
                    /\ cx_readings'[s] = Append(cx_readings[s], cx_pending_readings[s])
                    /\ cx_resp'.op = "confirm_reading"
                    /\ cx_resp'.session_id = s
                    /\ cx_resp'.message = "saved"
       /\ IsPrefix(ws_readings, ws_readings')
       /\ ws_readings' # ws_readings =>
              /\ Len(ws_readings') = Len(ws_readings) + 1
              /\ ws_sent'.type = "message"
              /\ ws_sent'.message.text = "saved"]_vars

\* C21 witness: the store of main.py holds two different readings, the
\* second one just confirmed after the first.
C21_Witness ==
    /\ Len(ws_readings) = 2
    /\ ws_readings[1] # ws_readings[2]
    /\ ws_sent.type = "message"
    /\ ws_sent.message.text = "saved"

\* C22: a step in which the handler of a connection ends on
\* WebSocketDisconnect removes that connection from active_connections and
\* its transcript from message_histories, and nothing else: the confirmed
\* readings are unchanged, every other connection keeps its registration,
\* transcript and handler, and what get_history and get_stats answer to any
\* connection afterwards is what they answered before.
C22_DisconnectKeepsConfirmedReadings ==
    [][\A c \in Conns :
          (ws_handler[c].pc = "receive" /\ ws_handler'[c].pc = "closed") =>
              /\ ws_readings' = ws_readings
              /\ ws_active_connections' = ws_active_connections \ {c}
              /\ ws_message_histories'[c] = None
              /\ \A o \in Conns \ {c} :
                     /\ ws_message_histories'[o] = ws_message_histories[o]
                     /\ ws_handler'[o] = ws_handler[o]
                     /\ ws_send_history_update(o, ws_readings')
                            = ws_send_history_update(o, ws_readings)
                     /\ ws_send_stats_update(o, ws_readings')
                            = ws_send_stats_update(o, ws_readings)]_vars

\* C22 witness: a connection has dropped, its entry and transcript are gone,
\* and another connection is answered get_history with the confirmed
\* readings, which are not empty.
C22_Witness ==
    \E c \in Conns :
        /\ ws_handler[c].pc = "closed"
        /\ c \notin ws_active_connections
        /\ ws_message_histories[c] = None
        /\ ws_readings # <<>>
        /\ ws_sent.type = "history_update"
        /\ ws_sent.to # c
        /\ ws_sent.readings = ws_readings

\* C23: a chat turn of main.py whose handler awaits a collaborator
\* (extraction or conversation) never ends the handler: every step of such
\* a handler leaves it awaiting a collaborator or back at receiving frames,
\* the turn ends with a frame sent to its connection, and no connection
\* whose handler has terminated stays in active_connections.
C23_CollaboratorFailureRecovered ==
    [][\A c \in Conns :
          ws_handler[c].pc \in {"extraction", "conversation"} =>
              /\ ws_handler'[c].pc \in {"extraction", "conversation", "receive"}
              /\ ws_handler'[c].pc = "receive" =>
                     ws_sent'.type # "none" /\ ws_sent'.to = c
              /\ ws_handler'[c].pc \notin {"extraction", "conversation", "receive"} =>
                     c \notin ws_active_connections']_vars

\* ---------------------------------------------- claims: main_working_saving.py
\* C24: every chat turn of main_working_saving.py that has reached a
\* collaborator call ends with a normal ChatResponse (status 200), whatever
\* the collaborators do; a turn that ends without a candidate (extraction
\* failed or found nothing) answers the conversation reply with
\* needs_confirmation=false.
C24_NoCollaboratorFailureSurfaces ==
    [][\A r \in Reqs :
          (sv_req[r].pc \in {"conversation", "extraction"} /\ sv_req'[r].pc = "idle") =>
              /\ sv_resp'.op = "chat"
              /\ sv_resp'.status = 200
              /\ sv_resp'.response \in {"reply", "is_this_correct"}
              /\ sv_resp'.response = "reply" => ~sv_resp'.needs_confirmation]_vars

cx_Ids(pending_readings, readings) ==
    {pending_readings[s].id : s \in {t \in Sessions : pending_readings[t] # None}}
    \cup UNION {{readings[s][k].id : k \in 1..Len(readings[s])} : s \in Sessions}

sv_Ids(rows) == {row.id : row \in rows}

C26_StoredValuesWithinRange ==
    /\ \A row \in sv_readings :
           row.glucose_level >= MinGlucose /\ row.glucose_level <= MaxGlucose
    /\ (sv_resp.op = "chat" /\ sv_resp.needs_confirmation) =>
           /\ sv_resp.extracted_reading.glucose_level >= MinGlucose
           /\ sv_resp.extracted_reading.glucose_level <= MaxGlucose
    /\ (sv_resp.op = "get_readings") =>
           \A row \in sv_resp.readings :
               row.glucose_level >= MinGlucose /\ row.glucose_level <= MaxGlucose

\* ---------------------------------------------------- claims: main_complex.py
\* C27: chat turns of one session take effect one after the other: the
\* turn that saves its exchange adds it to the transcript the session has at
\* that moment, so the transcript after the save is the transcript before
\* it with the turn's message appended (no exchange saved by an overlapping
\* turn of the session is lost).
C27_TurnsOfASessionSerialized ==
    [][\A r \in Reqs :
          cx_ChatConversationDone(r) =>
              LET s == cx_req[r].session_id
              IN  cx_message_history'[s] =
                      Append(cx_message_history[s], cx_req[r].message)]_vars

\* C28: a confirm_reading(confirm=true) request that is answered "saved"
\* commits the reading whose id the request names: for a reading_id the
\* server has issued, the reading appended to the session's confirmed list
\* has that id.
C28_CommittedIdIsRequestedId ==
    [][\A s \in Sessions, i \in 1..MaxChats :
          (/\ cx_ConfirmReading(s, i, TRUE)
           /\ i <= cx_uuid
           /\ cx_resp'.status = 200) =>
              /\ Len(cx_readings'[s]) = Len(cx_readings[s]) + 1
              /\ Last(cx_readings'[s]).id = i]_vars

C30_InlineTrendIsAnalyzeTrend ==
    fn_Returned("ws_trend_analysis") =>
        LET store_before == fn_call.previous_readings
            store_after == ws_get_readings(ws_add_reading(store_before,
                                                          fn_call.new_reading))
        IN  /\ fn_result = ws_analyze_trend(store_before, fn_call.new_reading)
            /\ AllButLast(store_after) = store_before
            /\ (Len(store_after) <= 1) = (store_before = <<>>)
            /\ Len(store_after) <= 1 =>
                   /\ fn_result.kind = "first_recorded"
                   /\ fn_result = ws_analyze_trend(<<>>, fn_call.new_reading)

\* C30 witness: the inline analysis has answered "10.0 higher than your
\* average of 100.0" for a reading of 110 confirmed into a store that held
\* one reading of 100 of the same category (with the new reading counted in,
\* the average would be 105.0 and the answer "consistent").
C30_Witness ==
    /\ fn_Returned("ws_trend_analysis")
    /\ Len(fn_call.previous_readings) = 1
    /\ fn_call.previous_readings[1].glucose_level = 100
    /\ fn_call.previous_readings[1].meal_status = fn_call.new_reading.meal_status
    /\ fn_call.new_reading.glucose_level = 110
    /\ fn_result.kind = "higher"
    /\ fn_result.by = 100
    /\ fn_result.avg = 1000

\* C31: with several connections confirming against the one store, every
\* confirm_reading step that commits a reading (the steps that change the
\* store; C21 has that only they do) leaves that reading as the
\* last element of the store, on top of the store as it was (no other
\* connection's reading comes in between), and answers its own connection
\* with the trend of that reading against the store without its last
\* element: the reading is not in its own comparison set, and no other
\* reading is left out of it.
C31_ExcludedReadingIsOwn ==
    [][ws_readings' # ws_readings =>
          \A c \in Conns, l \in RawLevels, d \in RawDates, m \in MealStatus, k \in BOOLEAN :
            (ws_ReceiveConfirmReading(c, l, d, m, k) /\ GlucoseFieldOK(l)) =>
              LET reading == [glucose_level |-> l, date |-> d, meal_status |-> m]
              IN  /\ ws_readings' = Append(ws_readings, reading)
                  /\ Last(ws_readings') = reading
                  /\ AllButLast(ws_readings') = ws_readings
                  /\ ws_sent'.to = c
                  /\ ws_sent'.message.text = "saved"
                  /\ ws_sent'.message.trend = ws_analyze_trend(ws_readings, reading)]_vars

\* C31 witness: two connections are open, the store holds two readings of
\* different categories, and the second one was just answered "first
\* <category> reading": it was compared with the other reading, not with
\* itself.
C31_Witness ==
    /\ ws_active_connections = Conns
    /\ \A c \in Conns : ws_handler[c].pc = "receive"
    /\ Len(ws_readings) = 2
    /\ ws_readings[1].meal_status # ws_readings[2].meal_status
    /\ ws_sent.type = "message"
    /\ ws_sent.message.text = "saved"
    /\ ws_sent.message.trend.kind = "first_of_status"
    /\ ws_sent.message.trend.meal_status = ws_readings[2].meal_status

\* C32: a connection of main.py handles its inbound actions one at a time
\* and, collaborators returning, answers each with exactly one frame before
\* it reads the next: a chat message sends nothing until its turn ends, and
\* ends with one reading_extracted or one message; confirm_reading is
\* answered with one message, get_history with one history_update,
\* get_stats with one stats_update, each leaving the handler reading frames.
\* Only the chat turn that ends in the conversational reply changes the
\* connection's transcript, and only confirm_reading changes the store.
\* (A step that ends the handler while it awaits a collaborator is the
\* collaborator not returning.)
C32_OneEventPerInboundAction ==
    [][\A c \in Conns :
          /\ ws_ReceiveMessage(c) =>
                 /\ ws_sent' = ws_sent
                 /\ ws_handler'[c].pc = "extraction"
                 /\ UNCHANGED <<ws_readings, ws_message_histories>>
          /\ (ws_handler[c].pc \in {"extraction", "conversation"}
                /\ ws_handler'[c] # ws_handler[c]
                /\ ws_handler'[c].pc # "crashed") =>
                 /\ ws_readings' = ws_readings
                 /\ IF ws_handler'[c].pc = "receive"
                    THEN /\ ws_sent'.to = c
                         /\ ws_sent'.type \in {"reading_extracted", "message"}
                         /\ ws_message_histories' # ws_message_histories =>
                                /\ ws_handler[c].pc = "conversation"
                                /\ ws_sent'.type = "message"
                                /\ ws_sent'.message.text = "reply"
                    ELSE /\ ws_handler[c].pc = "extraction"
                         /\ ws_handler'[c].pc = "conversation"
                         /\ ws_sent' = ws_sent
                         /\ ws_message_histories' = ws_message_histories
          /\ (\E l \in RawLevels, d \in RawDates, m \in MealStatus, k \in BOOLEAN :
                  ws_ReceiveConfirmReading(c, l, d, m, k)) =>
                 /\ ws_handler'[c].pc = "receive"
                 /\ ws_sent'.to = c
                 /\ ws_sent'.type = "message"
                 /\ ws_message_histories' = ws_message_histories
          /\ ws_ReceiveGetHistory(c) =>
                 /\ ws_handler'[c].pc = "receive"
                 /\ ws_sent'.to = c
                 /\ ws_sent'.type = "history_update"
                 /\ UNCHANGED <<ws_readings, ws_message_histories>>
          /\ ws_ReceiveGetStats(c) =>
                 /\ ws_handler'[c].pc = "receive"
                 /\ ws_sent'.to = c
                 /\ ws_sent'.type = "stats_update"
                 /\ UNCHANGED <<ws_readings, ws_message_histories>>
          /\ ws_readings' # ws_readings =>
                 /\ ws_sent'.type = "message"
                 /\ ws_sent'.message.text = "saved"]_vars

====
